---- MODULE Spec2Model ----
(***************************************************************************)
(* Model of Solver.solve in python/w2dyn_cthyb/solver.py: the translation  *)
(* of the solve options into the engine configuration cfg["QMC"], the      *)
(* eager checks, the sector dispatch, the per-component engine             *)
(* invocations, the automatic two-particle loop and the result conversion  *)
(* with its return value.                                                  *)
(*                                                                         *)
(* The external engine (w2dyn) is modelled through its interface only:     *)
(* an invocation either returns or fails, worm_get_sector_index returns a  *)
(* sector identifier chosen by the environment, and the contents of        *)
(* cfg["QMC"]["WormComponents"] are environment data.  Real numbers are    *)
(* scaled to integers: probabilities in percent, hybridization magnitudes  *)
(* in units of 1e-6.  Configuration keys that no branch of solve reads     *)
(* back (Niw, Ntau, NLegMax, Nwarmups, Ncorr, move probabilities,          *)
(* statesampling) are not carried in cfg.                                  *)
(***************************************************************************)
EXTENDS Integers, Sequences, FiniteSets, TLC

\* ---------------------------------------------------------------- bounds
MaxCycles == 7
MaxTime == 5
MaxManualKeys == 2
MaxRetained == 2
MaxListLen == 2

\* further solve calls made on one Solver after the first
MaxCalls == 1

\* ------------------------------------------------------ program constants
TwoOperatorSector == 2
FourPntG4 == 8
Threshold == 10
DefaultWormPercent == 20
G2NFermionic == 30
G2NBosonic == 30
AutoWormSector == 4

\* -------------------------------------------------------------- utilities
Range(s) == {s[i] : i \in DOMAIN s}

RECURSIVE Pow(_, _)
Pow(b, e) == IF e = 0 THEN 1 ELSE b * Pow(b, e - 1)

\* Python int(a / float(b)) for b > 0: truncation towards zero
TruncDiv(a, b) == IF a >= 0 THEN a \div b ELSE -((-a) \div b)

RECURSIVE SetToAscSeq(_)
SetToAscSeq(S) ==
  IF S = {} THEN <<>>
  ELSE LET m == CHOOSE x \in S : \A y \in S : x <= y
       IN <<m>> \o SetToAscSeq(S \ {m})

SeqsUpTo(S, n) == UNION {[1..k -> S] : k \in 0..n}

\* -------------------------------------------------- engine configuration
CfgKeys == {"offdiag", "complex", "Nmeas", "measurement_time", "FourPnt",
            "N4iwf", "N4iwb", "WormMeasGiw", "WormMeasGtau", "WormSearchEta",
            "WormMeasG4iw", "WormMeasP3iwPH", "WormMeasP2iwPH",
            "WormMeasP2tauPH", "PercentageWormInsert", "PercentageWormReplace"}

\* cfg["QMC"] as read from the generated parameter file: engine defaults
CfgDefault == [k \in CfgKeys |-> IF k = "measurement_time" THEN -1 ELSE 0]

\* keys a caller overrides through cfg_qmc, and the value given to each
ManualKeys == {"FourPnt", "WormMeasGtau", "WormMeasP3iwPH", "WormMeasP2iwPH",
               "WormMeasP2tauPH", "Nmeas", "measurement_time"}

ManualValue(k) ==
  CASE k = "FourPnt" -> FourPntG4
    [] k = "Nmeas" -> MaxCycles - 2
    [] k = "measurement_time" -> MaxTime + 2
    [] OTHER -> 1

ManualCfgs ==
  {[k \in K |-> ManualValue(k)] :
     K \in {S \in SUBSET ManualKeys : Cardinality(S) <= MaxManualKeys}}

EmptyCfg == [k \in {} |-> 0]

\* orbital counts of the impurity problems solved: one orbital, i.e. two
\* flavours, 4 two-operator and 16 four-operator components
OrbitalCounts == {1}


NComp(n, k) == Pow(2 * n, k)

\* entries of cfg["QMC"]["WormComponents"] (integers)
CompInputs(n) == {0, 1, 2, NComp(n, 4) + 1}

\* entries of the worm_components argument (integers)
WormComponentInputs == {0, 1}

\* option values of one solve call before any call is made
NoParams ==
  [worm |-> FALSE, measure_G_tau |-> TRUE, measure_G_l |-> FALSE,
   measure_pert_order |-> FALSE, measure_G2_iw_ph |-> FALSE,
   has_h_0 |-> FALSE, n_cycles |-> 0, max_time |-> -1,
   PercentageWormInsert |-> DefaultWormPercent,
   PercentageWormReplace |-> DefaultWormPercent,
   has_worm_components |-> FALSE, worm_components |-> <<>>,
   has_cfg_qmc |-> FALSE, cfg_qmc |-> EmptyCfg]

VARIABLES
  complex,          \* self.complex
  delta_interface,  \* self.delta_interface
  pc,               \* position of the solve call
  p,                \* the options of the call (params_kw)
  norb,             \* self.norb
  tSide,            \* t_ij_matrix.shape[0] (0: not read yet)
  cfg,              \* cfg["QMC"]
  solverBuilt,      \* number of impurity.CtHybSolver constructions
  sectorIndex,      \* worm_get_sector_index(cfg["QMC"]) (0: not evaluated)
  ftau,             \* peak |ftau[:,b1,s1,b2,s2]| per two-operator component
  components,       \* the component list being iterated
  next_comp,        \* index into components of the next invocation
  pipelines,        \* pipelines entered, in order
  invocations,      \* engine invocations, in order
  bound,            \* local names of solve that are assigned
  gtauVal,          \* what the local gtau holds
  attrs,            \* attributes present on self
  deltaFlipped,     \* self.Delta_tau holds the negated, reversed data
  ret,              \* return value form ("none": not returned)
  error,            \* exception that ended the call ("none": no exception)
  gtauFilled,       \* two-operator components whose gtau slice was assigned
  resultGtau,       \* result.other["gtau"], the band x spin engine output
  gtauArr,          \* the array bs_diagflat returned for it
  fresh,            \* attributes of self assigned during the current call
  calls             \* solve calls made on this Solver before the current one

vars == <<complex, delta_interface, pc, p, norb, tSide, cfg, solverBuilt,
          sectorIndex, ftau, components, next_comp, pipelines, invocations,
          bound, gtauVal, attrs, deltaFlipped, ret, error,
          gtauFilled, resultGtau, gtauArr, fresh, calls>>

\* --------------------------------------------------------- Solver.__init__
Init ==
  /\ complex \in BOOLEAN
  /\ delta_interface \in BOOLEAN
  /\ pc = "idle"
  /\ p = NoParams
  /\ norb = 0
  /\ tSide = 0
  /\ cfg = CfgDefault
  /\ solverBuilt = 0
  /\ sectorIndex = 0
  /\ ftau = <<>>
  /\ components = <<>>
  /\ next_comp = 1
  /\ pipelines = <<>>
  /\ invocations = <<>>
  /\ bound = {}
  /\ gtauVal = "unassigned"
  /\ attrs = IF delta_interface THEN {"Delta_tau"} ELSE {"G0_iw"}
  /\ deltaFlipped = FALSE
  /\ ret = "none"
  /\ error = "none"
  /\ gtauFilled = {}
  /\ resultGtau = <<>>
  /\ gtauArr = <<>>
  /\ fresh = {}
  /\ calls = 0

Fail(e) == /\ pc' = "failed"
           /\ error' = e

\* ------------------------------------------------------------- decisions

\* lines 121-122: params_kw.pop("h_0") raises KeyError without h_0
MissingH0(di, has) == di /\ ~has

\* line 173: int(t_ij_matrix.shape[0]/2) == self.norb
OrbitalCountMatches(t, n) == TruncDiv(t, 2) = n

\* line 175: reshape(2, norb, 2, norb) needs exactly (2*norb)^2 entries
ReshapeFits(t, n) == t * t = (2 * n) * (2 * n)

\* lines 212-215
Offdiag(max_blocksize) == IF max_blocksize = 1 THEN 0 ELSE 1

\* variant of ComplexWormExit: the complex-with-worm stop is missing
ComplexWormExit_Never(cplx, worm) == FALSE

\* line 218
ComplexWormExit(cplx, worm) == cplx /\ worm

\* variant of ComplexDiagonalError: the offdiag assertion is missing
ComplexDiagonalError_Never(cplx, offdiag) == FALSE

\* lines 222-228: the assertion fails for complex with offdiag == 0
ComplexDiagonalError(cplx, offdiag) == cplx /\ offdiag = 0

\* lines 279-286
WormPercent(x) == IF x # 0 THEN x ELSE DefaultWormPercent

\* lines 212-286: the derived settings written into cfg["QMC"]
DerivedCfg(c, cplx, q, offdiag) ==
  [k \in CfgKeys |->
     CASE k = "offdiag" -> offdiag
       [] k = "complex" -> IF cplx THEN 1 ELSE c[k]
       [] k = "Nmeas" -> q.n_cycles
       [] k = "measurement_time" -> q.max_time
       [] k \in {"WormMeasGiw", "WormMeasGtau", "WormSearchEta"} ->
            IF q.worm /\ ~q.has_cfg_qmc THEN 1 ELSE c[k]
       [] k = "PercentageWormInsert" ->
            IF q.worm THEN WormPercent(q.PercentageWormInsert) ELSE c[k]
       [] k = "PercentageWormReplace" ->
            IF q.worm THEN WormPercent(q.PercentageWormReplace) ELSE c[k]
       [] OTHER -> c[k]]

\* lines 289-291: manual_cfg_qmc written over cfg["QMC"]
ApplyManual(c, m) ==
  [k \in CfgKeys |-> IF k \in DOMAIN m THEN m[k] ELSE c[k]]

\* line 360
AnyMeasurement(q) ==
  q.measure_G_tau \/ q.measure_G_l \/ q.measure_pert_order

\* what worm_get_sector_index(cfg["QMC"]) may return: the two-operator
\* sector when the one-particle worm measurements that solve switches on in
\* lines 274-275 are enabled, another sector's identifier otherwise
worm_get_sector_index(c) ==
  IF c["WormMeasGiw"] = 1 \/ c["WormMeasGtau"] = 1
  THEN {TwoOperatorSector}
  ELSE {AutoWormSector}

\* lines 529-546: the reduced pipeline of the first toggle that is set
ReducedSector(c) ==
  IF c["WormMeasP3iwPH"] = 1 THEN "WormP3iwPH"
  ELSE IF c["WormMeasP2iwPH"] = 1 THEN "WormP2iwPH"
  ELSE IF c["WormMeasP2tauPH"] = 1 THEN "WormP2tauPH"
  ELSE "Unimplemented"

\* variant of SelectSector: the FourPnt test precedes the sector-index test
SelectSector_FourPntFirst(cplx, worm, si, c) ==
  IF cplx THEN "Standard"
  ELSE IF ~worm THEN "Standard"
  ELSE IF c["FourPnt"] = FourPntG4 THEN "WormFourOperatorFull"
  ELSE IF si = TwoOperatorSector THEN "WormTwoOperator"
  ELSE IF \/ c["WormMeasP3iwPH"] = 1
          \/ c["WormMeasP2iwPH"] = 1
          \/ c["WormMeasP2tauPH"] = 1
       THEN ReducedSector(c)
  ELSE "NoSector"

\* lines 362-516: the if / elif chain; si is worm_get_sector_index(cfg)
SelectSector(cplx, worm, si, c) ==
  IF cplx THEN "Standard"
  ELSE IF ~worm THEN "Standard"
  ELSE IF si = TwoOperatorSector THEN "WormTwoOperator"
  ELSE IF c["FourPnt"] = FourPntG4 THEN "WormFourOperatorFull"
  ELSE IF \/ c["WormMeasP3iwPH"] = 1
          \/ c["WormMeasP2iwPH"] = 1
          \/ c["WormMeasP2tauPH"] = 1
       THEN ReducedSector(c)
  ELSE "NoSector"

\* variant of RetainedComponents: an entry exactly at the threshold counts
\* as nonzero
RetainedComponents_AtThreshold(f) ==
  SetToAscSeq({i \in DOMAIN f : f[i] >= Threshold})

\* lines 383-400: the components whose hybridization exceeds the threshold
RetainedComponents(f) ==
  SetToAscSeq({i \in DOMAIN f : f[i] > Threshold})

\* variant of DivideBudget: the per-component share is rounded up
DivideBudget_RoundUp(c, max_time, n) ==
  IF max_time <= 0
  THEN [c EXCEPT !["Nmeas"] = TruncDiv(c["Nmeas"] + n - 1, n)]
  ELSE [c EXCEPT !["measurement_time"] = TruncDiv(max_time + n - 1, n)]

\* lines 405-409; n is len(components) > 0
DivideBudget(c, max_time, n) ==
  IF max_time <= 0
  THEN [c EXCEPT !["Nmeas"] = TruncDiv(c["Nmeas"], n)]
  ELSE [c EXCEPT !["measurement_time"] = TruncDiv(max_time, n)]

\* lines 468-478: positive integers of cfg["QMC"]["WormComponents"]
FilterComponents(l) == SelectSeq(l, LAMBDA c : c > 0)

\* variant of AutoG2Enabled: the override mapping is not consulted
AutoG2Enabled_IgnoreManual(measure_g4iw_ph, m) == measure_g4iw_ph

\* line 611
AutoG2Enabled(measure_g4iw_ph, m) ==
  measure_g4iw_ph /\ Cardinality(DOMAIN m) = 0

\* lines 615-621
AutoG2Cfg(c, q) ==
  [k \in CfgKeys |->
     CASE k = "FourPnt" -> FourPntG4
       [] k = "N4iwf" -> G2NFermionic
       [] k = "N4iwb" -> G2NBosonic - 1
       [] k = "PercentageWormInsert" -> q.PercentageWormInsert
       [] k = "PercentageWormReplace" -> q.PercentageWormReplace
       [] k \in {"WormMeasG4iw", "WormSearchEta"} -> 1
       [] OTHER -> c[k]]

\* lines 712-715
TwoParticleKeySet(c) ==
  \/ c["FourPnt"] = FourPntG4
  \/ c["WormMeasP3iwPH"] = 1
  \/ c["WormMeasP2iwPH"] = 1
  \/ c["WormMeasP2tauPH"] = 1

\* lines 712-726: the value returned; a is the set of attributes of self,
\* b the set of assigned locals ("unbound": the return reads an unassigned
\* local)
ReturnForm(c, q, a, b) ==
  IF TwoParticleKeySet(c)
  THEN IF "result_gen" \in a
       THEN IF {"result_gen", "result_comp"} \subseteq b
            THEN "pair" ELSE "unbound"
       ELSE "None"
  ELSE IF q.measure_G_tau
  THEN IF "result_aux" \in a
       THEN IF {"result_aux", "result"} \subseteq b
            THEN "pair" ELSE "unbound"
       ELSE IF "result" \in b THEN "result" ELSE "unbound"
  ELSE "None"

\* one engine call as logged: solve, solve_component or solve_comp_stats
Invocation(kind, comp, sector, ok, c) ==
  [kind |-> kind, comp |-> comp, sector |-> sector, ok |-> ok, cfg |-> c]

\* ------------------------------------------------- solve, lines 108-135
\* the caller passes the two worm percentages with the same value, either 0
\* or the default
Begin ==
  /\ pc = "idle"
  /\ \E worm \in BOOLEAN, gtau \in BOOLEAN, gl \in BOOLEAN,
        po \in BOOLEAN, g2 \in BOOLEAN, mt \in {-1, MaxTime},
        hcq \in BOOLEAN, m \in ManualCfgs :
       \E h0 \in (IF delta_interface THEN BOOLEAN ELSE {FALSE}),
          pwi \in (IF worm \/ (g2 /\ DOMAIN m = {})
                   THEN {0, DefaultWormPercent} ELSE {DefaultWormPercent}),
          pwr \in (IF worm \/ (g2 /\ DOMAIN m = {})
                   THEN {0, DefaultWormPercent} ELSE {DefaultWormPercent}) :
         /\ pwr = pwi
         /\ (DOMAIN m # {} => hcq)
         /\ (~worm => (hcq <=> DOMAIN m # {}))
         /\ p' = [NoParams EXCEPT
                    !.worm = worm, !.measure_G_tau = gtau,
                    !.measure_G_l = gl, !.measure_pert_order = po,
                    !.measure_G2_iw_ph = g2, !.has_h_0 = h0,
                    !.n_cycles = MaxCycles, !.max_time = mt,
                    !.PercentageWormInsert = pwi,
                    !.PercentageWormReplace = pwr,
                    !.has_cfg_qmc = hcq, !.cfg_qmc = m]
         /\ IF MissingH0(delta_interface, h0)
            THEN Fail("KeyError")
            ELSE pc' = "tensors" /\ error' = error
  /\ attrs' = attrs \cup {"last_solve_params"}
  /\ fresh' = fresh \cup {"last_solve_params"}
  /\ UNCHANGED <<complex, delta_interface, norb, tSide, cfg, solverBuilt,
                 sectorIndex, ftau, components, next_comp, pipelines,
                 invocations, bound, gtauVal, deltaFlipped, ret,
                 gtauFilled, resultGtau, gtauArr, calls>>

\* ------------------------------------------------- solve, lines 143-178
Tensors ==
  /\ pc = "tensors"
  /\ \E n \in OrbitalCounts :
       \E t \in {2 * n, 2 * n + 1, 2 * n + 2} :
         /\ norb' = n
         /\ tSide' = t
         /\ IF ~OrbitalCountMatches(t, n) THEN Fail("AssertionError")
            ELSE IF ~ReshapeFits(t, n) THEN Fail("ValueError")
            ELSE pc' = "configure" /\ error' = error
  /\ attrs' = attrs \cup {"norb"} \cup
              (IF delta_interface THEN {} ELSE {"Delta_tau", "Delta_infty"})
  /\ fresh' = fresh \cup {"norb"} \cup
              (IF delta_interface THEN {} ELSE {"Delta_tau", "Delta_infty"})
  /\ deltaFlipped' = IF delta_interface THEN ~deltaFlipped ELSE TRUE
  /\ UNCHANGED <<complex, delta_interface, p, cfg, solverBuilt, sectorIndex,
                 ftau, components, next_comp, pipelines, invocations, bound,
                 gtauVal, ret,
                 gtauFilled, resultGtau, gtauArr, calls>>

\* ------------------------------------------------- solve, lines 183-292
Configure ==
  /\ pc = "configure"
  /\ \E max_blocksize \in 1..2 :
       LET offdiag == Offdiag(max_blocksize) IN
       IF ComplexWormExit(complex, p.worm)
       THEN /\ cfg' = [cfg EXCEPT !["offdiag"] = offdiag]
            /\ Fail("SystemExit")
       ELSE IF ComplexDiagonalError(complex, offdiag)
       THEN /\ cfg' = [cfg EXCEPT !["offdiag"] = offdiag, !["complex"] = 1]
            /\ Fail("AssertionError")
       ELSE /\ cfg' = ApplyManual(DerivedCfg(cfg, complex, p, offdiag),
                                  p.cfg_qmc)
            /\ pc' = "build"
            /\ error' = error
  /\ UNCHANGED <<complex, delta_interface, p, norb, tSide, solverBuilt,
                 sectorIndex, ftau, components, next_comp, pipelines,
                 invocations, bound, gtauVal, attrs, fresh, deltaFlipped, ret,
                 gtauFilled, resultGtau, gtauArr, calls>>

\* ------------------------------------------------- solve, lines 309-355
BuildSolver ==
  /\ pc = "build"
  /\ solverBuilt' = solverBuilt + 1
  /\ pc' = "dispatch"
  /\ UNCHANGED <<complex, delta_interface, p, norb, tSide, cfg, sectorIndex,
                 ftau, components, next_comp, pipelines, invocations, bound,
                 gtauVal, attrs, fresh, deltaFlipped, ret, error,
                 gtauFilled, resultGtau, gtauArr, calls>>

\* subsets of S with at most k elements
RECURSIVE SubsetsUpTo(_, _)
SubsetsUpTo(S, k) ==
  IF k = 0 THEN {{}}
  ELSE LET prev == SubsetsUpTo(S, k - 1)
       IN prev \cup {A \cup {x} : A \in prev, x \in S}

\* hybridization data: per two-operator component the largest |ftau| on the
\* time grid; at most MaxRetained components lie above the threshold, the
\* others are all zero or all exactly at the threshold
FtauChoices(n) ==
  {[i \in 1..NComp(n, 2) |-> IF i \in A THEN Threshold + 1 ELSE low] :
     A \in SubsetsUpTo(1..NComp(n, 2), MaxRetained), low \in {0, Threshold}}

Pipeline(name, by) == [name |-> name, by |-> by]

\* variant of Dispatch: with no retained component the budget is left
\* undivided and the call goes on with the all-zero array
Dispatch_ZeroResult ==
  /\ pc = "dispatch"
  /\ IF ~AnyMeasurement(p)
     THEN /\ pc' = "auto"
          /\ UNCHANGED <<sectorIndex, ftau, components, next_comp, cfg,
                         pipelines, invocations, bound, gtauVal, attrs, fresh,
                         error>>
     ELSE
       \E si \in (IF p.worm /\ ~complex
                  THEN worm_get_sector_index(cfg) ELSE {0}) :
         LET s == SelectSector(complex, p.worm, si, cfg) IN
         /\ sectorIndex' = si
         /\ CASE s = "Standard" ->
                   \E ok \in BOOLEAN :
                     /\ pipelines' = Append(pipelines, Pipeline(s, "chain"))
                     /\ invocations' = Append(invocations,
                                         Invocation("solve", 0, 0, ok, cfg))
                     /\ IF ok
                        THEN /\ bound' = bound \cup {"result", "gtau"}
                             /\ gtauVal' = "gtau-full"
                             /\ pc' = "auto"
                             /\ error' = error
                        ELSE /\ Fail("EngineFailure")
                             /\ UNCHANGED <<bound, gtauVal>>
                     /\ UNCHANGED <<ftau, components, next_comp, cfg, attrs,
                                    fresh>>
              [] s = "WormTwoOperator" ->
                   \E f \in FtauChoices(norb) :
                     LET comps == RetainedComponents(f) IN
                     /\ ftau' = f
                     /\ pipelines' = Append(pipelines, Pipeline(s, "chain"))
                     /\ bound' = bound \cup {"gtau"}
                     /\ gtauVal' = "zeros"
                     /\ components' = comps
                     /\ next_comp' = 1
                     /\ IF Len(comps) = 0
                        THEN /\ cfg' = cfg
                             /\ pc' = "auto"
                             /\ error' = error
                        ELSE /\ cfg' = DivideBudget(cfg, p.max_time,
                                                    Len(comps))
                             /\ pc' = "comp_loop"
                             /\ error' = error
                     /\ UNCHANGED <<invocations, attrs, fresh>>
              [] s \in {"WormFourOperatorFull", "WormP3iwPH", "WormP2iwPH",
                        "WormP2tauPH"} ->
                   \E l \in SeqsUpTo(CompInputs(norb), MaxListLen) :
                     LET comps == FilterComponents(l) IN
                     /\ pipelines' = Append(pipelines, Pipeline(s, "chain"))
                     /\ attrs' = attrs \cup
                                 {IF s = "WormFourOperatorFull"
                                  THEN "G2_worm_components"
                                  ELSE "GF_worm_components"}
                     /\ fresh' = fresh \cup
                                 {IF s = "WormFourOperatorFull"
                                  THEN "G2_worm_components"
                                  ELSE "GF_worm_components"}
                     /\ bound' = bound \cup {"gtau"}
                     /\ gtauVal' = "placeholder"
                     /\ components' = comps
                     /\ next_comp' = 1
                     /\ pc' = IF Len(comps) = 0 THEN "auto" ELSE "comp_loop"
                     /\ UNCHANGED <<ftau, cfg, invocations, error>>
              [] s = "Unimplemented" ->
                   /\ Fail("NotImplementedError")
                   /\ UNCHANGED <<ftau, components, next_comp, cfg, pipelines,
                                  invocations, bound, gtauVal, attrs, fresh>>
              [] s = "NoSector" ->
                   /\ pc' = "auto"
                   /\ UNCHANGED <<ftau, components, next_comp, cfg, pipelines,
                                  invocations, bound, gtauVal, attrs, fresh,
                                  error>>
  /\ UNCHANGED <<complex, delta_interface, p, norb, tSide, solverBuilt,
                 deltaFlipped, ret,
                 gtauFilled, resultGtau, gtauArr, calls>>

\* ------------------------------------------------- solve, lines 357-606
\* the branch taken and everything it does before its first component
Dispatch ==
  /\ pc = "dispatch"
  /\ IF ~AnyMeasurement(p)
     THEN /\ pc' = "auto"
          /\ UNCHANGED <<sectorIndex, ftau, components, next_comp, cfg,
                         pipelines, invocations, bound, gtauVal, attrs, fresh,
                         error>>
     ELSE
       \E si \in (IF p.worm /\ ~complex
                  THEN worm_get_sector_index(cfg) ELSE {0}) :
         LET s == SelectSector(complex, p.worm, si, cfg) IN
         /\ sectorIndex' = si
         /\ CASE s = "Standard" ->
                   \E ok \in BOOLEAN :
                     /\ pipelines' = Append(pipelines, Pipeline(s, "chain"))
                     /\ invocations' = Append(invocations,
                                         Invocation("solve", 0, 0, ok, cfg))
                     /\ IF ok
                        THEN /\ bound' = bound \cup {"result", "gtau"}
                             /\ gtauVal' = "gtau-full"
                             /\ pc' = "auto"
                             /\ error' = error
                        ELSE /\ Fail("EngineFailure")
                             /\ UNCHANGED <<bound, gtauVal>>
                     /\ UNCHANGED <<ftau, components, next_comp, cfg, attrs,
                                    fresh>>
              [] s = "WormTwoOperator" ->
                   \E f \in FtauChoices(norb) :
                     LET comps == RetainedComponents(f) IN
                     /\ ftau' = f
                     /\ pipelines' = Append(pipelines, Pipeline(s, "chain"))
                     /\ bound' = bound \cup {"gtau"}
                     /\ gtauVal' = "zeros"
                     /\ components' = comps
                     /\ next_comp' = 1
                     /\ IF Len(comps) = 0
                        THEN Fail("ZeroDivisionError") /\ cfg' = cfg
                        ELSE /\ cfg' = DivideBudget(cfg, p.max_time,
                                                    Len(comps))
                             /\ pc' = "comp_loop"
                             /\ error' = error
                     /\ UNCHANGED <<invocations, attrs, fresh>>
              [] s \in {"WormFourOperatorFull", "WormP3iwPH", "WormP2iwPH",
                        "WormP2tauPH"} ->
                   \E l \in SeqsUpTo(CompInputs(norb), MaxListLen) :
                     LET comps == FilterComponents(l) IN
                     /\ pipelines' = Append(pipelines, Pipeline(s, "chain"))
                     /\ attrs' = attrs \cup
                                 {IF s = "WormFourOperatorFull"
                                  THEN "G2_worm_components"
                                  ELSE "GF_worm_components"}
                     /\ fresh' = fresh \cup
                                 {IF s = "WormFourOperatorFull"
                                  THEN "G2_worm_components"
                                  ELSE "GF_worm_components"}
                     /\ bound' = bound \cup {"gtau"}
                     /\ gtauVal' = "placeholder"
                     /\ components' = comps
                     /\ next_comp' = 1
                     /\ pc' = IF Len(comps) = 0 THEN "auto" ELSE "comp_loop"
                     /\ UNCHANGED <<ftau, cfg, invocations, error>>
              [] s = "Unimplemented" ->
                   /\ Fail("NotImplementedError")
                   /\ UNCHANGED <<ftau, components, next_comp, cfg, pipelines,
                                  invocations, bound, gtauVal, attrs, fresh>>
              [] s = "NoSector" ->
                   /\ pc' = "auto"
                   /\ UNCHANGED <<ftau, components, next_comp, cfg, pipelines,
                                  invocations, bound, gtauVal, attrs, fresh,
                                  error>>
  /\ UNCHANGED <<complex, delta_interface, p, norb, tSide, solverBuilt,
                 deltaFlipped, ret,
                 gtauFilled, resultGtau, gtauArr, calls>>

\* the pipeline the dispatch chain entered
ChainSector == pipelines[Len(pipelines)].name

\* variant of ComponentStep: after a failed invocation the loop stays at the
\* same component and invokes the engine on it again
ComponentStep_Retry ==
  /\ pc = "comp_loop"
  /\ LET c == components[next_comp]
         two == ChainSector = "WormTwoOperator"
     IN \E ok \in BOOLEAN :
          /\ invocations' =
               Append(invocations,
                      IF two
                      THEN Invocation("solve_component", c,
                                      TwoOperatorSector, ok, cfg)
                      ELSE Invocation("solve_comp_stats", c, sectorIndex,
                                      ok, cfg))
          /\ IF ok
             THEN /\ bound' = bound \cup
                              (IF two THEN {"result_aux", "result"}
                               ELSE {"result_gen", "result_comp"})
                  /\ gtauVal' = IF two THEN "gtau-worm" ELSE gtauVal
                  /\ gtauFilled' = IF two THEN gtauFilled \cup {c}
                                   ELSE gtauFilled
                  /\ next_comp' = next_comp + 1
                  /\ pc' = IF next_comp = Len(components)
                           THEN "auto" ELSE "comp_loop"
                  /\ error' = error
             ELSE UNCHANGED <<pc, error, bound, gtauVal, gtauFilled,
                              next_comp>>
  /\ UNCHANGED <<complex, delta_interface, p, norb, tSide, cfg, solverBuilt,
                 sectorIndex, ftau, components, pipelines, attrs, fresh,
                 deltaFlipped, ret,
                 resultGtau, gtauArr, calls>>

\* ------------------------ solve, lines 411-437, 484-510, 578-605: one
\* iteration of the component loop of the branch taken
ComponentStep ==
  /\ pc = "comp_loop"
  /\ LET c == components[next_comp]
         two == ChainSector = "WormTwoOperator"
     IN \E ok \in BOOLEAN :
          /\ invocations' =
               Append(invocations,
                      IF two
                      THEN Invocation("solve_component", c,
                                      TwoOperatorSector, ok, cfg)
                      ELSE Invocation("solve_comp_stats", c, sectorIndex,
                                      ok, cfg))
          /\ IF ok
             THEN /\ bound' = bound \cup
                              (IF two THEN {"result_aux", "result"}
                               ELSE {"result_gen", "result_comp"})
                  /\ gtauVal' = IF two THEN "gtau-worm" ELSE gtauVal
                  /\ gtauFilled' = IF two THEN gtauFilled \cup {c}
                                   ELSE gtauFilled
                  /\ next_comp' = next_comp + 1
                  /\ pc' = IF next_comp = Len(components)
                           THEN "auto" ELSE "comp_loop"
                  /\ error' = error
             ELSE /\ Fail("EngineFailure")
                  /\ UNCHANGED <<bound, gtauVal, gtauFilled, next_comp>>
  /\ UNCHANGED <<complex, delta_interface, p, norb, tSide, cfg, solverBuilt,
                 sectorIndex, ftau, components, pipelines, attrs, fresh,
                 deltaFlipped, ret,
                 resultGtau, gtauArr, calls>>

\* lines 653-663
AutoG2Attrs == {"G2_iw_ph", "G2_iw_ph_error"}

\* ------------------------------------------------- solve, lines 611-632
AutoG2 ==
  /\ pc = "auto"
  /\ IF AutoG2Enabled(p.measure_G2_iw_ph, p.cfg_qmc)
     THEN
       \E has \in BOOLEAN :
         \E l \in (IF has THEN SeqsUpTo(WormComponentInputs, MaxListLen)
                   ELSE {<<>>}) :
           LET comps == IF has THEN l
                        ELSE [i \in 1..NComp(norb, 4) |-> i] IN
           /\ p' = [p EXCEPT !.has_worm_components = has,
                             !.worm_components = l]
           /\ cfg' = AutoG2Cfg(cfg, p)
           /\ solverBuilt' = solverBuilt + 1
           /\ pipelines' = Append(pipelines,
                                  Pipeline("WormFourOperatorFull", "auto"))
           /\ components' = comps
           /\ next_comp' = 1
           /\ IF Len(comps) = 0
              THEN /\ attrs' = attrs \cup AutoG2Attrs
                   /\ fresh' = fresh \cup AutoG2Attrs
                   /\ ret' = "g4iw"
                   /\ pc' = "done"
              ELSE /\ pc' = "auto_loop"
                   /\ UNCHANGED <<attrs, fresh, ret>>
     ELSE /\ pc' = "convert"
          /\ UNCHANGED <<p, cfg, solverBuilt, pipelines, components,
                         next_comp, attrs, fresh, ret>>
  /\ UNCHANGED <<complex, delta_interface, norb, tSide, sectorIndex, ftau,
                 invocations, bound, gtauVal, deltaFlipped, error,
                 gtauFilled, resultGtau, gtauArr, calls>>

\* ------------------------------------------------- solve, lines 630-663
AutoStep ==
  /\ pc = "auto_loop"
  /\ \E ok \in BOOLEAN :
       /\ invocations' = Append(invocations,
                                Invocation("solve_comp_stats",
                                           components[next_comp],
                                           AutoWormSector, ok, cfg))
       /\ IF ok
          THEN /\ bound' = bound \cup {"res_gen", "res_g4comp"}
               /\ next_comp' = next_comp + 1
               /\ error' = error
               /\ IF next_comp = Len(components)
                  THEN /\ attrs' = attrs \cup AutoG2Attrs
                       /\ fresh' = fresh \cup AutoG2Attrs
                       /\ ret' = "g4iw"
                       /\ pc' = "done"
                  ELSE /\ pc' = "auto_loop"
                       /\ UNCHANGED <<attrs, fresh, ret>>
          ELSE /\ Fail("EngineFailure")
               /\ UNCHANGED <<bound, next_comp, attrs, fresh, ret>>
  /\ UNCHANGED <<complex, delta_interface, p, norb, tSide, cfg, solverBuilt,
                 sectorIndex, ftau, components, pipelines, gtauVal,
                 deltaFlipped,
                 gtauFilled, resultGtau, gtauArr, calls>>

\* line 684
DiagonalExpansion(c, q) == c["offdiag"] = 0 /\ ~q.worm

\* band x spin positions of an array over n orbitals
BandSpin(n) == (1..n) \X (1..2)

\* values an entry of the engine's diagonal output takes here
GtauValues == {1, 2}

\* result.other["gtau"] of a diagonal run, line 685: the arrays whose two
\* spin entries of the first band differ, so that a misplaced entry shows
BandSpinArrays(n) ==
  {a \in [BandSpin(n) -> GtauValues] : a[<<1, 1>>] # a[<<1, 2>>]}

\* lines 666-678: position <<b, s, b2, s2>> of the returned array
bs_diagflat(bs_array) ==
  [q \in (DOMAIN bs_array) \X (DOMAIN bs_array) |->
     IF q[1] = q[2] THEN bs_array[q[1]] ELSE 0]

\* ------------------------------------------------- solve, lines 683-726
Convert ==
  /\ pc = "convert"
  /\ LET diag == p.measure_G_tau /\ DiagonalExpansion(cfg, p)
         okTau == \/ ~p.measure_G_tau
                  \/ IF diag THEN "result" \in bound ELSE "gtau" \in bound
         okHist == ~p.measure_pert_order \/ "result" \in bound
         okLeg == ~p.measure_G_l \/ "result" \in bound
         form == ReturnForm(cfg, p, attrs, bound)
         aTau == IF p.measure_G_tau /\ okTau
                 THEN {"G_tau", "G_tau_error", "G_iw"} ELSE {}
         aHist == IF okTau /\ p.measure_pert_order /\ okHist
                  THEN {"hist"} ELSE {}
         aLeg == IF okTau /\ okHist /\ p.measure_G_l /\ okLeg
                 THEN {"G_l"} ELSE {}
     IN /\ attrs' = attrs \cup aTau \cup aHist \cup aLeg
        /\ fresh' = fresh \cup aTau \cup aHist \cup aLeg
        /\ gtauVal' = IF diag /\ okTau THEN "diagflat" ELSE gtauVal
        /\ IF diag /\ okTau
           THEN \E a \in BandSpinArrays(norb) :
                  /\ resultGtau' = a
                  /\ gtauArr' = bs_diagflat(a)
           ELSE UNCHANGED <<resultGtau, gtauArr>>
        /\ bound' = IF diag /\ okTau THEN bound \cup {"gtau"} ELSE bound
        /\ IF okTau /\ okHist /\ okLeg /\ form # "unbound"
           THEN /\ ret' = form
                /\ pc' = "done"
                /\ error' = error
           ELSE /\ Fail("UnboundLocalError")
                /\ ret' = ret
  /\ UNCHANGED <<complex, delta_interface, p, norb, tSide, cfg, solverBuilt,
                 sectorIndex, ftau, components, next_comp, pipelines,
                 invocations, deltaFlipped,
                 gtauFilled, calls>>

Next ==
  \/ Begin
  \/ Tensors
  \/ Configure
  \/ BuildSolver
  \/ Dispatch
  \/ ComponentStep
  \/ AutoG2
  \/ AutoStep
  \/ Convert

Spec == Init /\ [][Next]_vars

\* --------------------------------------- several calls on the same Solver
\* solve is called again on the same object: its locals start afresh, the
\* attributes of self stay as the earlier call left them.  In the
\* delta-interface mode the caller may assign Delta_tau anew before the call.
\* A call ended by exit() (line 220) has ended the process.
NextCall ==
  /\ pc \in {"done", "failed"}
  /\ error # "SystemExit"
  /\ calls < MaxCalls
  /\ calls' = calls + 1
  /\ pc' = "idle"
  /\ p' = NoParams
  /\ tSide' = 0
  /\ cfg' = CfgDefault
  /\ solverBuilt' = 0
  /\ sectorIndex' = 0
  /\ ftau' = <<>>
  /\ components' = <<>>
  /\ next_comp' = 1
  /\ pipelines' = <<>>
  /\ invocations' = <<>>
  /\ bound' = {}
  /\ gtauVal' = "unassigned"
  /\ ret' = "none"
  /\ error' = "none"
  /\ gtauFilled' = {}
  /\ resultGtau' = <<>>
  /\ gtauArr' = <<>>
  /\ fresh' = {}
  /\ \E reassigned \in (IF delta_interface THEN BOOLEAN ELSE {FALSE}) :
       deltaFlipped' = IF reassigned THEN FALSE ELSE deltaFlipped
  /\ UNCHANGED <<complex, delta_interface, norb, attrs>>

\* the calls considered when several are made in a row: no cfg_qmc, no
\* wall-clock budget, default worm percentages, G_l and the expansion-order
\* histogram off, at most one hybridization entry above the threshold and
\* none at it, at most one explicit worm component, one engine output
CallsScope ==
  /\ DOMAIN p.cfg_qmc = {}
  /\ ~p.has_cfg_qmc
  /\ p.max_time = -1
  /\ p.PercentageWormInsert = DefaultWormPercent
  /\ p.PercentageWormReplace = DefaultWormPercent
  /\ ~p.measure_G_l
  /\ ~p.measure_pert_order
  /\ \A c \in DOMAIN ftau : ftau[c] # Threshold
  /\ Cardinality({c \in DOMAIN ftau : ftau[c] > Threshold}) <= 1
  /\ Len(p.worm_components) <= 1
  /\ \A q \in DOMAIN resultGtau : resultGtau[q] = 1

NextCalls ==
  \/ Begin /\ CallsScope'
  \/ Tensors /\ CallsScope'
  \/ Configure /\ CallsScope'
  \/ BuildSolver /\ CallsScope'
  \/ Dispatch /\ CallsScope'
  \/ ComponentStep /\ CallsScope'
  \/ AutoG2 /\ CallsScope'
  \/ AutoStep /\ CallsScope'
  \/ Convert /\ CallsScope'
  \/ NextCall

SpecCalls == Init /\ [][NextCalls]_vars

\* ------------------------------------------------------------ properties

Terminal == pc \in {"done", "failed"}

\* the call passed the dispatch chain (lines 357-606)
Dispatched ==
  \/ pc \in {"comp_loop", "auto", "auto_loop", "convert", "done"}
  \/ pc = "failed" /\ error \in {"EngineFailure", "ZeroDivisionError",
                                 "UnboundLocalError", "NotImplementedError"}

\* cfg["QMC"] was filled and the override mapping written (line 292 passed)
Configured == pc = "build" \/ solverBuilt >= 1

ChainPipes == SelectSeq(pipelines, LAMBDA x : x.by = "chain")
AutoPipes == SelectSeq(pipelines, LAMBDA x : x.by = "auto")
FourOpPipes == SelectSeq(pipelines, LAMBDA x : x.name = "WormFourOperatorFull")

InvocationsOf(kind) == {i \in DOMAIN invocations : invocations[i].kind = kind}

\* the caller's cfg_qmc value of key k, or d when cfg_qmc has no such key
ManualOr(k, d) == IF k \in DOMAIN p.cfg_qmc THEN p.cfg_qmc[k] ELSE d

ReducedToggles == {"WormMeasP3iwPH", "WormMeasP2iwPH", "WormMeasP2tauPH"}
TogglesSet == {k \in ReducedToggles : ManualOr(k, 0) = 1}

\* C1 (as claimed): every solve call that completes has run exactly one
\* measurement pipeline, never two and never none.
C1_ExactlyOneSector == pc = "done" => Len(pipelines) = 1

\* what the selection order of C2 prescribes once the chain is entered
C2_OrderHolds ==
  /\ (complex \/ ~p.worm) =>
        /\ ChainPipes = <<Pipeline("Standard", "chain")>>
        /\ Cardinality(InvocationsOf("solve")) = 1
  /\ (~complex /\ p.worm) =>
        /\ InvocationsOf("solve") = {}
        /\ sectorIndex = TwoOperatorSector =>
             ChainPipes = <<Pipeline("WormTwoOperator", "chain")>>
        /\ (sectorIndex # TwoOperatorSector
              /\ ManualOr("FourPnt", 0) = FourPntG4) =>
             ChainPipes = <<Pipeline("WormFourOperatorFull", "chain")>>
        /\ (sectorIndex # TwoOperatorSector
              /\ ManualOr("FourPnt", 0) # FourPntG4 /\ TogglesSet # {}) =>
             /\ Len(ChainPipes) = 1
             /\ ChainPipes[1].name \in {"WormP3iwPH", "WormP2iwPH",
                                        "WormP2tauPH"}
        /\ (sectorIndex # TwoOperatorSector
              /\ ManualOr("FourPnt", 0) # FourPntG4 /\ TogglesSet = {}) =>
             ChainPipes = <<>>

C3_ComplexWormStopsEarly ==
  (complex /\ p.worm) =>
    /\ solverBuilt = 0
    /\ invocations = <<>>
    /\ pc \in {"tensors", "configure", "failed"}
    /\ pc = "failed" =>
         error \in {"KeyError", "AssertionError", "ValueError", "SystemExit"}
    /\ (pc = "failed" /\ norb # 0 /\ tSide = 2 * norb) =>
         error = "SystemExit"

\* C3 witness: the complex-with-worm call ended by the process exit
C3_Witness == complex /\ p.worm /\ pc = "failed" /\ error = "SystemExit"

\* C4: a missing h_0 in delta-interface mode, an orbital-count mismatch and
\* complex with diagonal hybridization each end the call with an error
\* before any engine invocation; the call makes no engine invocation at all.
C4_EagerErrors ==
  /\ (pc # "idle" /\ MissingH0(delta_interface, p.has_h_0)) =>
       pc = "failed" /\ error = "KeyError" /\ invocations = <<>>
                     /\ solverBuilt = 0
  /\ (tSide # 0 /\ tSide # 2 * norb) =>
       pc = "failed" /\ error \in {"AssertionError", "ValueError"}
                     /\ invocations = <<>> /\ solverBuilt = 0
  /\ (complex /\ cfg["offdiag"] = 0 /\ pc \notin {"idle", "tensors",
                                                 "configure"}) =>
       pc = "failed" /\ error # "none" /\ invocations = <<>>
                     /\ solverBuilt = 0

\* C4 witness: a complex call on a diagonal hybridization that passed the
\* orbital-count check and was ended by the offdiag assertion
C4_Witness ==
  /\ complex /\ ~p.worm
  /\ norb # 0 /\ tSide = 2 * norb
  /\ cfg["offdiag"] = 0
  /\ pc = "failed" /\ error = "AssertionError"

ToggleOf(name) ==
  CASE name = "WormP3iwPH" -> "WormMeasP3iwPH"
    [] name = "WormP2iwPH" -> "WormMeasP2iwPH"
    [] name = "WormP2tauPH" -> "WormMeasP2tauPH"
    [] OTHER -> "none"

AutoG2Keys == {"FourPnt", "N4iwf", "N4iwb", "WormMeasG4iw", "WormSearchEta"}

\* C8: with measure_G2_iw_ph set and a non-empty cfg_qmc, none of the
\* automatic two-particle settings is written (each key holds the caller's
\* override or the value the translation gave it), the automatic
\* all-component loop is not run, no second engine solver is built and the
\* four-operator pipeline is run at most once.
C8_ManualBypassesAutoG2 ==
  (p.measure_G2_iw_ph /\ DOMAIN p.cfg_qmc # {} /\ Configured) =>
    /\ \A k \in AutoG2Keys : cfg[k] = ManualOr(k, 0)
    /\ cfg["PercentageWormInsert"] =
         (IF p.worm THEN WormPercent(p.PercentageWormInsert) ELSE 0)
    /\ cfg["PercentageWormReplace"] =
         (IF p.worm THEN WormPercent(p.PercentageWormReplace) ELSE 0)
    /\ AutoPipes = <<>>
    /\ solverBuilt <= 1
    /\ Len(FourOpPipes) <= 1
    /\ ret # "g4iw"

\* C8 witness: a completed call with measure_G2_iw_ph and a cfg_qmc that sets
\* FourPnt, which ran the four-operator pipeline of the dispatch chain
C8_Witness ==
  /\ pc = "done"
  /\ p.measure_G2_iw_ph
  /\ "FourPnt" \in DOMAIN p.cfg_qmc
  /\ Len(FourOpPipes) = 1
  /\ InvocationsOf("solve_comp_stats") # {}

\* number of two-operator components above the threshold
RetainedCount == Cardinality({i \in DOMAIN ftau : ftau[i] > Threshold})

\* the cycle count configured for the call
TotalCycles == ManualOr("Nmeas", p.n_cycles)

RECURSIVE SumNmeas(_)
SumNmeas(I) ==
  IF I = {} THEN 0
  ELSE LET i == CHOOSE j \in I : TRUE
       IN invocations[i].cfg["Nmeas"] + SumNmeas(I \ {i})

\* the two-operator component loop ran to its end
TwoOperatorLoopDone ==
  /\ pc \in {"auto", "auto_loop", "convert", "done"}
  /\ ChainPipes = <<Pipeline("WormTwoOperator", "chain")>>

\* C9: in the two-operator worm sector with C retained components and cycle
\* count T, every component is sampled with floor(T/C) cycles and the cycles
\* of all components sum to floor(T/C)*C <= T; with a positive wall-clock
\* budget W every component gets floor(W/C) and the full cycle count T.
C9_BudgetApportionment ==
  /\ \A i \in InvocationsOf("solve_component") :
       IF p.max_time <= 0
       THEN invocations[i].cfg["Nmeas"] = TotalCycles \div RetainedCount
       ELSE /\ invocations[i].cfg["measurement_time"] =
                 p.max_time \div RetainedCount
            /\ invocations[i].cfg["Nmeas"] = TotalCycles
  /\ (TwoOperatorLoopDone /\ p.max_time <= 0) =>
       /\ Cardinality(InvocationsOf("solve_component")) = RetainedCount
       /\ SumNmeas(InvocationsOf("solve_component")) =
            (TotalCycles \div RetainedCount) * RetainedCount
       /\ SumNmeas(InvocationsOf("solve_component")) <= TotalCycles

\* C9 witness: a completed two-operator call over two components whose cycle
\* count is not a multiple of two
C9_Witness ==
  /\ pc = "done"
  /\ TwoOperatorLoopDone
  /\ p.max_time <= 0
  /\ RetainedCount = 2
  /\ TotalCycles % 2 = 1
  /\ Cardinality(InvocationsOf("solve_component")) = 2

\* C10 (as claimed): at every engine invocation every key of cfg_qmc has the
\* value the caller supplied.
C10_ManualWins ==
  \A i \in DOMAIN invocations :
    \A k \in DOMAIN p.cfg_qmc : invocations[i].cfg[k] = p.cfg_qmc[k]

\* C11 (as claimed): the orbital-count check passes when the hopping matrix
\* has side 2*norb and raises the assertion error for every other side,
\* odd sides such as 2*norb + 1 included.
C11_ConsistencyCheck ==
  tSide # 0 =>
    IF tSide = 2 * norb
    THEN /\ pc # "tensors"
         /\ error # "ValueError"
         /\ error = "AssertionError" => complex
    ELSE pc = "failed" /\ error = "AssertionError"


\* engine invocations that take a component index
ComponentKinds == {"solve_component", "solve_comp_stats"}

\* C12 (as claimed): within every multi-component pipeline the engine is
\* invoked on the components in ascending compound-index order, whatever
\* order the caller listed them in.
C12_AscendingOrder ==
  \A i, j \in DOMAIN invocations :
    ( /\ i < j
      /\ invocations[i].kind \in ComponentKinds
      /\ invocations[i].kind = invocations[j].kind )
    => invocations[i].comp <= invocations[j].comp


\* C14 (as claimed): every component index handed to the engine lies in
\* 1..(2*norb)^k, k = 2 in the two-operator sector and k = 4 in the
\* four-operator sector, for every caller-supplied component list.
C14_IndexInRange ==
  \A i \in DOMAIN invocations :
    LET v == invocations[i] IN
    /\ v.kind = "solve_component" => v.comp \in 1..NComp(norb, 2)
    /\ (v.kind = "solve_comp_stats" /\ FourOpPipes # <<>>)
         => v.comp \in 1..NComp(norb, 4)

\* C16 (as claimed): every solve call that completes has performed at least
\* one engine invocation.
C16_CompletedCallInvokes ==
  pc = "done" => Len(invocations) >= 1


\* indices of the solve_component invocations of the call
TwoOpInvocations == InvocationsOf("solve_component")

\* compound indices whose hybridization entry exceeds the threshold somewhere
\* on the time grid
AboveThreshold == {c \in DOMAIN ftau : ftau[c] > Threshold}

\* C15: in the two-operator worm sector the engine is invoked only on
\* compound indices whose hybridization entry exceeds the threshold, on each
\* at most once, and once the component loop has completed on every such
\* index; the slices of the combined imaginary-time array that were assigned
\* are exactly those of the sampled components, all others keep the zero they
\* were created with.
C15_TwoOperatorSampling ==
  (Len(pipelines) >= 1 /\ pipelines[1].name = "WormTwoOperator") =>
    /\ DOMAIN ftau = 1..NComp(norb, 2)
    /\ \A i \in TwoOpInvocations : invocations[i].comp \in AboveThreshold
    /\ \A i, j \in TwoOpInvocations :
         invocations[i].comp = invocations[j].comp => i = j
    /\ gtauFilled = {invocations[i].comp :
                       i \in {j \in TwoOpInvocations : invocations[j].ok}}
    /\ TwoOperatorLoopDone =>
         /\ {invocations[i].comp : i \in TwoOpInvocations} = AboveThreshold
         /\ gtauFilled = AboveThreshold

\* a completed two-operator call with two sampled components while the other
\* entries sit exactly at the threshold and stay unsampled
C15_Witness ==
  /\ pc = "done"
  /\ TwoOperatorLoopDone
  /\ Cardinality(AboveThreshold) = 2
  /\ \E c \in DOMAIN ftau : ftau[c] = Threshold /\ c \notin gtauFilled
  /\ Cardinality(TwoOpInvocations) = 2


\* C17: an engine invocation that failed is the last invocation of its call
\* (it is not repeated and no later component is sampled), and the call has
\* ended in failure without a return value, whichever pipeline made it.
C17_FailureIsFinal ==
  \A i \in DOMAIN invocations :
    ~invocations[i].ok =>
      /\ i = Len(invocations)
      /\ pc = "failed"
      /\ error = "EngineFailure"
      /\ ret = "none"

\* an invocation failed after an earlier one succeeded and while later
\* components were still to be sampled
C17_Witness ==
  /\ Len(invocations) >= 2
  /\ ~invocations[Len(invocations)].ok
  /\ invocations[Len(invocations)].kind \in ComponentKinds
  /\ next_comp < Len(components)
  /\ pc = "failed"


\* the expansion was applied to the engine output of this call (line 685)
ExpansionApplied == gtauVal = "diagflat"

\* C19 (as claimed): bs_diagflat(a) holds a[b,s] at position [b,s,b,s] and
\* zero at every other position, so its diagonal is a again; and a completed
\* solve call has applied the expansion to the engine output exactly when
\* measure_G_tau is on, offdiag is 0 and worm is off.
C19_DiagonalExpansion ==
  /\ ExpansionApplied =>
       /\ DOMAIN gtauArr = (DOMAIN resultGtau) \X (DOMAIN resultGtau)
       /\ \A q \in DOMAIN gtauArr :
            gtauArr[q] = IF q[1] = q[2] THEN resultGtau[q[1]] ELSE 0
       /\ [x \in DOMAIN resultGtau |-> gtauArr[<<x, x>>]] = resultGtau
  /\ pc = "done" =>
       (ExpansionApplied <=>
          (p.measure_G_tau /\ cfg["offdiag"] = 0 /\ ~p.worm))


\* the attributes of self that hold a result of a sector
SectorAttrs == {"G_tau", "G_iw", "hist", "G_l", "G2_worm_components",
                "GF_worm_components", "G2_iw_ph"}

\* C18 (as claimed): after any sequence of solve calls each sector-result
\* attribute visible on the solver was assigned by the most recent call or
\* is absent.
C18_NoStaleAttributes ==
  pc = "done" => \A a \in SectorAttrs : a \in attrs => a \in fresh

\* C20 (as claimed): on the first and on every later solve call the
\* hybridization handed to the engine is the negated, time-reversed image of
\* the hybridization as the caller last assigned it, in the delta-interface
\* mode as well as in the G0 mode.
C20_HybridizationImage ==
  solverBuilt >= 1 => deltaFlipped


\* C21: in the two-operator worm sector with no hybridization entry above
\* the threshold the call has failed with a division-by-zero error, no engine
\* invocation was made, nothing is returned and G_tau is not assigned.
C21_ZeroComponentsFail ==
  ( /\ Len(pipelines) >= 1
    /\ pipelines[1].name = "WormTwoOperator"
    /\ AboveThreshold = {} )
  => /\ pc = "failed"
     /\ error = "ZeroDivisionError"
     /\ invocations = <<>>
     /\ ret = "none"
     /\ "G_tau" \notin fresh

\* a two-operator call whose hybridization entries all sit exactly at the
\* threshold, with G_tau requested, ended by the division
C21_Witness ==
  /\ Len(pipelines) >= 1
  /\ pipelines[1].name = "WormTwoOperator"
  /\ DOMAIN ftau # {}
  /\ \A c \in DOMAIN ftau : ftau[c] = Threshold
  /\ p.measure_G_tau
  /\ error = "ZeroDivisionError"


\* gtau arrays that hold the output of an engine invocation of the call
EngineOutputs == {"gtau-full", "gtau-worm", "diagflat"}

\* C22 (as claimed): whenever a completed solve call assigns G_tau, its data
\* come from an output array of an engine invocation of that call, never from
\* a placeholder array that no invocation wrote.
C22_GtauFromEngine ==
  (pc = "done" /\ "G_tau" \in fresh) => gtauVal \in EngineOutputs

\* C23 (as claimed): with worm mode on and an empty cfg_qmc, every engine
\* solver the call builds is configured with PercentageWormInsert > 0 and
\* PercentageWormReplace > 0, the solver rebuilt for the automatic
\* measure_G2_iw_ph pipeline included.
C23_WormPercentPositive ==
  (p.worm /\ DOMAIN p.cfg_qmc = {} /\ solverBuilt >= 1) =>
    /\ cfg["PercentageWormInsert"] > 0
    /\ cfg["PercentageWormReplace"] > 0

\* errors raised by the configuration and consistency checks
ConfigurationErrors == {"AssertionError", "SystemExit"}

\* C24 (as claimed): a first solve call that aborts with a configuration or
\* consistency error leaves the Solver as constructed: no attribute was
\* assigned and the stored hybridization was not altered.
C24_AbortLeavesState ==
  (pc = "failed" /\ error \in ConfigurationErrors) =>
    /\ fresh = {}
    /\ ~deltaFlipped

====
